---- MODULE Spec2Model ----
(***************************************************************************)
(* Proof-of-existence pallet (docknetwork/poe): anchors, revocations and   *)
(* leaf suspensions gated by Merkle inclusion proofs.                       *)
(*                                                                         *)
(* Digests are modelled symbolically.  A 32-byte array is a sequence of    *)
(* words; the digest function is a free constructor that tags the bytes    *)
(* fed to the hasher with their length, so that it is injective (collision *)
(* free) and never yields a raw array such as the all-zero digest.          *)
(***************************************************************************)
EXTENDS Integers, Sequences, FiniteSets, TLC

(* ------------------------------ bounds --------------------------------- *)
\* highest block number the block producer reaches
MaxBlock == 2
\* highest timestamp; stands for u64::max_value()
MaxTime == 1
\* longest proof given to verify_proof on its own
MaxProofLen == 2

(* ------------------------------ hasher.rs ------------------------------ *)
\* Hashable for u64: the big-endian bytes of the number, one word
HashableU64(n) == <<n>>

\* Hashable for [T; 32] / [T]: every element in order; a digest feeds its own bytes
HashableArray(d) == d

\* Hashable for (&A, &B): the first component, then the second
HashablePair(a, b) == a \o b

\* Hasher::output of a fresh hasher fed with the given bytes
Output(bytes) == <<-Len(bytes)>> \o bytes

\* hash(preimage): new hasher, feed the preimage, take the output
hash(bytes) == Output(bytes)

\* [b; 32]: the array whose bytes all equal b
Fill(b) == <<b, b, b, b>>

\* Default for MerkleRoot / Hashed: [0u8; 32]
ZeroDigest == Fill(0)

\* From<T> for Hashed<T, H, O>, T = u64
HashedFromU64(account) == hash(HashableU64(account))

\* Trait::account_id_hash of the runtime: (*account_id).into()
account_id_hash(account) == HashedFromU64(account)

(* ------------------------------ merkle.rs ------------------------------ *)
Left(h) == <<"Left", h>>
Right(h) == <<"Right", h>>

\* variant: the two sides are exchanged
merge_swapped(pe, sibling) ==
    LET a == IF pe[1] = "Left" THEN sibling ELSE pe[2]
        b == IF pe[1] = "Left" THEN pe[2] ELSE sibling
    IN  hash(HashablePair(HashableArray(a), HashableArray(b)))

\* variant: the side of the element is not looked at
merge_ignores_side(pe, sibling) ==
    hash(HashablePair(HashableArray(pe[2]), HashableArray(sibling)))

\* ProofElement::merge: concatenate self with sibling in the proper order, hash
merge(pe, sibling) ==
    LET a == IF pe[1] = "Left" THEN pe[2] ELSE sibling
        b == IF pe[1] = "Left" THEN sibling ELSE pe[2]
    IN  hash(HashablePair(HashableArray(a), HashableArray(b)))

RECURSIVE fold(_, _)
\* proof.into_iter().fold(acc, |leaf, pe| pe.merge(&leaf))
fold(acc, proof) ==
    IF proof = <<>> THEN acc
    ELSE fold(merge(Head(proof), acc), Tail(proof))

\* variant: a proof without elements is taken as valid
verify_proof_vacuous(root, proof, leaf) ==
    \/ proof = <<>>
    \/ fold(hash(HashableArray(leaf)), proof) = root

\* verify_proof(root, proof, leaf)
verify_proof(root, proof, leaf) ==
    LET leaf_doublehash == hash(HashableArray(leaf))
        expected_root == fold(leaf_doublehash, proof)
    IN  expected_root = root

(* ------------------------------ inputs --------------------------------- *)
Accounts == {0, 1}

\* a signed origin of an account, or an origin that is not signed
Signed(a) == <<"Signed", a>>
Unsigned == <<"None", 0>>
Origins == {Signed(a) : a \in Accounts} \cup {Unsigned}

\* leaf node of account a in an administrators tree
AdminLeaf(a) == hash(HashableArray(account_id_hash(a)))

\* the tree { 0u64 } of the tests, and the tree { 0u64, 1u64 }
Root0 == AdminLeaf(0)
Root01 == hash(HashablePair(AdminLeaf(0), AdminLeaf(1)))

AdminRoots == {Root0, Root01}
DocRoots == {Fill(1)}
Leaves == {ZeroDigest}
Proofs == {<<>>, <<Left(AdminLeaf(0))>>}
Times == 0..MaxTime

(* ------------------------------ lib.rs --------------------------------- *)
\* Max proof size for revocations
MAX_PROOF_SIZE == 16

\* Option<Revokable<BlockNumber>> and Option<UnixTimeSeconds>
None == <<"None", 0>>
NotRevoked(t) == <<"NotRevoked", t>>
Revoked == <<"Revoked", 0>>
Some(t) == <<"Some", t>>

Ok == "Ok"
BadOrigin == "BadOrigin"
AlreadyAnchored == "The root has already been anchored."
AlreadyRevoked == "anchor already revoked"
InvalidProof == "invalid proof"
SuspensionNotExtended == "leaf is already suspended until specified time"

VARIABLES Anchors, SuspendedLeaves, block_number, last
vars == <<Anchors, SuspendedLeaves, block_number, last>>

AnchorKeys == AdminRoots \X DocRoots
SuspensionKeys == AdminRoots \X Leaves

\* the extrinsic dispatched last in the current block
Call(op, origin, admins, target, proof, suspend_end, before, result) ==
    [op |-> op, origin |-> origin, admins |-> admins, target |-> target,
     proof |-> proof, suspend_end |-> suspend_end, before |-> before,
     result |-> result]
NoCall == Call("none", Unsigned, ZeroDigest, ZeroDigest, <<>>, 0, None, Ok)

Init ==
    /\ Anchors = [k \in AnchorKeys |-> None]
    /\ SuspendedLeaves = [k \in SuspensionKeys |-> None]
    /\ block_number = 1
    /\ last = NoCall

\* ensure_signed(origin)
ensure_signed(origin) == origin[1] = "Signed"

\* variant: the anchors are keyed by the document root alone
create_anchor_result_root_only(origin, admins, root) ==
    IF ~ensure_signed(origin) THEN BadOrigin
    ELSE IF \E k \in DOMAIN Anchors : k[2] = root /\ Anchors[k] # None
         THEN AlreadyAnchored
    ELSE Ok

\* variant: only a NotRevoked record blocks the creation
create_anchor_result_over_revoked(origin, admins, root) ==
    LET key == <<admins, root>> IN
    IF ~ensure_signed(origin) THEN BadOrigin
    ELSE IF Anchors[key] \notin {None, Revoked} THEN AlreadyAnchored
    ELSE Ok

\* create_anchor: the dispatch result
create_anchor_result(origin, admins, root) ==
    LET key == <<admins, root>> IN
    IF ~ensure_signed(origin) THEN BadOrigin
    ELSE IF Anchors[key] # None THEN AlreadyAnchored
    ELSE Ok

\* variant: the record carries the number of the block after the current one
create_anchor_next_number(origin, admins, root) ==
    LET key == <<admins, root>>
        res == create_anchor_result(origin, admins, root)
    IN  /\ Anchors' = IF res = Ok
                      THEN [Anchors EXCEPT ![key] = NotRevoked(block_number + 1)]
                      ELSE Anchors
        /\ last' = Call("create_anchor", origin, admins, root, <<>>, 0,
                        Anchors[key], res)
        /\ UNCHANGED <<SuspendedLeaves, block_number>>

\* variant: the record carries the default block number
create_anchor_default_number(origin, admins, root) ==
    LET key == <<admins, root>>
        res == create_anchor_result(origin, admins, root)
    IN  /\ Anchors' = IF res = Ok
                      THEN [Anchors EXCEPT ![key] = NotRevoked(1)]
                      ELSE Anchors
        /\ last' = Call("create_anchor", origin, admins, root, <<>>, 0,
                        Anchors[key], res)
        /\ UNCHANGED <<SuspendedLeaves, block_number>>

create_anchor(origin, admins, root) ==
    LET key == <<admins, root>>
        res == create_anchor_result(origin, admins, root)
    IN  /\ Anchors' = IF res = Ok
                      THEN [Anchors EXCEPT ![key] = NotRevoked(block_number)]
                      ELSE Anchors
        /\ last' = Call("create_anchor", origin, admins, root, <<>>, 0,
                        Anchors[key], res)
        /\ UNCHANGED <<SuspendedLeaves, block_number>>

\* variant: a proof longer than MAX_PROOF_SIZE is refused
revoke_anchor_result_bounded(origin, admins, root, proof) ==
    LET key == <<admins, root>> IN
    IF ~ensure_signed(origin) THEN BadOrigin
    ELSE IF Anchors[key] = Revoked THEN AlreadyRevoked
    ELSE IF Len(proof) > MAX_PROOF_SIZE THEN InvalidProof
    ELSE IF ~verify_proof(admins, proof, account_id_hash(origin[2]))
         THEN InvalidProof
    ELSE Ok

\* variant: the proof is never checked
revoke_anchor_result_unchecked(origin, admins, root, proof) ==
    LET key == <<admins, root>> IN
    IF ~ensure_signed(origin) THEN BadOrigin
    ELSE IF Anchors[key] = Revoked THEN AlreadyRevoked
    ELSE Ok

\* variant: only an existing anchor can be revoked
revoke_anchor_result_must_exist(origin, admins, root, proof) ==
    LET key == <<admins, root>> IN
    IF ~ensure_signed(origin) THEN BadOrigin
    ELSE IF Anchors[key] = None THEN "anchor does not exist"
    ELSE IF Anchors[key] = Revoked THEN AlreadyRevoked
    ELSE IF ~verify_proof(admins, proof, account_id_hash(origin[2]))
         THEN InvalidProof
    ELSE Ok

\* variant: the proof is checked before the record is read
revoke_anchor_result_proof_first(origin, admins, root, proof) ==
    LET key == <<admins, root>> IN
    IF ~ensure_signed(origin) THEN BadOrigin
    ELSE IF ~verify_proof(admins, proof, account_id_hash(origin[2]))
         THEN InvalidProof
    ELSE IF Anchors[key] = Revoked THEN AlreadyRevoked
    ELSE Ok

\* variant: revoking a revoked anchor is accepted
revoke_anchor_result_idempotent(origin, admins, root, proof) ==
    LET key == <<admins, root>> IN
    IF ~ensure_signed(origin) THEN BadOrigin
    ELSE IF ~verify_proof(admins, proof, account_id_hash(origin[2]))
         THEN InvalidProof
    ELSE Ok

\* revoke_anchor: the dispatch result
revoke_anchor_result(origin, admins, root, proof) ==
    LET key == <<admins, root>> IN
    IF ~ensure_signed(origin) THEN BadOrigin
    ELSE IF Anchors[key] = Revoked THEN AlreadyRevoked
    ELSE IF ~verify_proof(admins, proof, account_id_hash(origin[2]))
         THEN InvalidProof
    ELSE Ok

\* variant: a revocation removes the record
revoke_anchor_removes(origin, admins, root, proof) ==
    LET key == <<admins, root>>
        res == revoke_anchor_result(origin, admins, root, proof)
    IN  /\ Anchors' = IF res = Ok
                      THEN [Anchors EXCEPT ![key] = None]
                      ELSE Anchors
        /\ last' = Call("revoke_anchor", origin, admins, root, proof, 0,
                        Anchors[key], res)
        /\ UNCHANGED <<SuspendedLeaves, block_number>>

\* variant: the record is written before the proof is checked
revoke_anchor_early_insert(origin, admins, root, proof) ==
    LET key == <<admins, root>>
        res == revoke_anchor_result(origin, admins, root, proof)
    IN  /\ Anchors' = IF res \in {Ok, InvalidProof}
                      THEN [Anchors EXCEPT ![key] = Revoked]
                      ELSE Anchors
        /\ last' = Call("revoke_anchor", origin, admins, root, proof, 0,
                        Anchors[key], res)
        /\ UNCHANGED <<SuspendedLeaves, block_number>>

revoke_anchor(origin, admins, root, proof) ==
    LET key == <<admins, root>>
        res == revoke_anchor_result(origin, admins, root, proof)
    IN  /\ Anchors' = IF res = Ok
                      THEN [Anchors EXCEPT ![key] = Revoked]
                      ELSE Anchors
        /\ last' = Call("revoke_anchor", origin, admins, root, proof, 0,
                        Anchors[key], res)
        /\ UNCHANGED <<SuspendedLeaves, block_number>>

\* variant: the proof is checked against the leaf, not the administrators
suspend_leaf_result_wrong_root(origin, proof, admins, leaf, suspend_end) ==
    LET key == <<admins, leaf>>
        current_suspend_end == SuspendedLeaves[key]
    IN
    IF ~ensure_signed(origin) THEN BadOrigin
    ELSE IF current_suspend_end # None /\ ~(suspend_end > current_suspend_end[2])
         THEN SuspensionNotExtended
    ELSE IF ~verify_proof(leaf, proof, account_id_hash(origin[2]))
         THEN InvalidProof
    ELSE Ok

\* variant: the two ends are compared the wrong way round
suspend_leaf_result_reversed(origin, proof, admins, leaf, suspend_end) ==
    LET key == <<admins, leaf>>
        current_suspend_end == SuspendedLeaves[key]
    IN
    IF ~ensure_signed(origin) THEN BadOrigin
    ELSE IF current_suspend_end # None /\ ~(current_suspend_end[2] > suspend_end)
         THEN SuspensionNotExtended
    ELSE IF ~verify_proof(admins, proof, account_id_hash(origin[2]))
         THEN InvalidProof
    ELSE Ok

\* variant: the stored end is not compared with the new one
suspend_leaf_result_no_compare(origin, proof, admins, leaf, suspend_end) ==
    IF ~ensure_signed(origin) THEN BadOrigin
    ELSE IF ~verify_proof(admins, proof, account_id_hash(origin[2]))
         THEN InvalidProof
    ELSE Ok

\* variant: an equal end is accepted
suspend_leaf_result_not_strict(origin, proof, admins, leaf, suspend_end) ==
    LET key == <<admins, leaf>>
        current_suspend_end == SuspendedLeaves[key]
    IN
    IF ~ensure_signed(origin) THEN BadOrigin
    ELSE IF current_suspend_end # None /\ ~(suspend_end >= current_suspend_end[2])
         THEN SuspensionNotExtended
    ELSE IF ~verify_proof(admins, proof, account_id_hash(origin[2]))
         THEN InvalidProof
    ELSE Ok

\* variant: the proof is checked before the stored end is read
suspend_leaf_result_proof_first(origin, proof, admins, leaf, suspend_end) ==
    LET key == <<admins, leaf>>
        current_suspend_end == SuspendedLeaves[key]
    IN
    IF ~ensure_signed(origin) THEN BadOrigin
    ELSE IF ~verify_proof(admins, proof, account_id_hash(origin[2]))
         THEN InvalidProof
    ELSE IF current_suspend_end # None /\ ~(suspend_end > current_suspend_end[2])
         THEN SuspensionNotExtended
    ELSE Ok

\* suspend_leaf: the dispatch result
suspend_leaf_result(origin, proof, admins, leaf, suspend_end) ==
    LET key == <<admins, leaf>>
        current_suspend_end == SuspendedLeaves[key]
    IN
    IF ~ensure_signed(origin) THEN BadOrigin
    ELSE IF current_suspend_end # None /\ ~(suspend_end > current_suspend_end[2])
         THEN SuspensionNotExtended
    ELSE IF ~verify_proof(admins, proof, account_id_hash(origin[2]))
         THEN InvalidProof
    ELSE Ok

suspend_leaf(origin, proof, admins, leaf, suspend_end) ==
    LET key == <<admins, leaf>>
        res == suspend_leaf_result(origin, proof, admins, leaf, suspend_end)
    IN  /\ SuspendedLeaves' = IF res = Ok
                              THEN [SuspendedLeaves EXCEPT ![key] = Some(suspend_end)]
                              ELSE SuspendedLeaves
        /\ last' = Call("suspend_leaf", origin, admins, leaf, proof, suspend_end,
                        SuspendedLeaves[key], res)
        /\ UNCHANGED <<Anchors, block_number>>

\* lookup_anchor(auths, root)
lookup_anchor(auths, root) == Anchors[<<auths, root>>]

\* variant: the comparison is the wrong way round
leaf_suspended_by_reversed(auths, leaf, now) ==
    LET s == SuspendedLeaves[<<auths, leaf>>] IN
    IF s = None THEN FALSE ELSE s[2] <= now

\* variant: the suspension ends before suspension_end
leaf_suspended_by_exclusive(auths, leaf, now) ==
    LET s == SuspendedLeaves[<<auths, leaf>>] IN
    IF s = None THEN FALSE ELSE now < s[2]

\* leaf_suspended_by(auths, leaf, now)
leaf_suspended_by(auths, leaf, now) ==
    LET s == SuspendedLeaves[<<auths, leaf>>] IN
    IF s = None THEN FALSE ELSE now <= s[2]

\* the block producer starts the next block
NextBlock ==
    /\ block_number < MaxBlock
    /\ block_number' = block_number + 1
    /\ last' = NoCall
    /\ UNCHANGED <<Anchors, SuspendedLeaves>>

CreateAnchor ==
    \E origin \in Origins, admins \in AdminRoots, root \in DocRoots :
        create_anchor(origin, admins, root)

RevokeAnchor ==
    \E origin \in Origins, admins \in AdminRoots, root \in DocRoots,
       proof \in Proofs :
        revoke_anchor(origin, admins, root, proof)

SuspendLeaf ==
    \E origin \in Origins, proof \in Proofs, admins \in AdminRoots,
       leaf \in Leaves, suspend_end \in Times :
        suspend_leaf(origin, proof, admins, leaf, suspend_end)

Next == CreateAnchor \/ RevokeAnchor \/ SuspendLeaf \/ NextBlock

Spec == Init /\ [][Next]_vars

TypeOK ==
    /\ block_number \in 1..MaxBlock
    /\ \A k \in AnchorKeys :
          Anchors[k] \in {None, Revoked} \cup {NotRevoked(t) : t \in 1..MaxBlock}
    /\ \A k \in SuspensionKeys :
          SuspendedLeaves[k] \in {None} \cup {Some(t) : t \in Times}
(* ---------------- administrators that are the empty set ---------------- *)
\* the default MerkleRoot as the administrators, as in tests::anchor
SentinelRoots == {ZeroDigest}
SentinelSiblings == {ZeroDigest, AdminLeaf(0)}
SentinelProofs ==
    {<<>>} \cup {<<Left(d)>> : d \in SentinelSiblings}
           \cup {<<Right(d)>> : d \in SentinelSiblings}
SentinelAnchorKeys == SentinelRoots \X DocRoots
SentinelSuspensionKeys == SentinelRoots \X Leaves

SentinelInit ==
    /\ Anchors = [k \in SentinelAnchorKeys |-> None]
    /\ SuspendedLeaves = [k \in SentinelSuspensionKeys |-> None]
    /\ block_number = 1
    /\ last = NoCall

SentinelCreateAnchor ==
    \E origin \in Origins, admins \in SentinelRoots, root \in DocRoots :
        create_anchor(origin, admins, root)

SentinelRevokeAnchor ==
    \E origin \in Origins, admins \in SentinelRoots, root \in DocRoots,
       proof \in SentinelProofs :
        revoke_anchor(origin, admins, root, proof)

SentinelSuspendLeaf ==
    \E origin \in Origins, proof \in SentinelProofs, admins \in SentinelRoots,
       leaf \in Leaves, suspend_end \in Times :
        suspend_leaf(origin, proof, admins, leaf, suspend_end)

SentinelNext ==
    SentinelCreateAnchor \/ SentinelRevokeAnchor \/ SentinelSuspendLeaf
        \/ NextBlock

SpecSentinel == SentinelInit /\ [][SentinelNext]_vars

(* ------------- several targets under one admin root, and reads --------- *)
\* the root of { 0 } with the document roots [0; 32] and [1; 32], as in
\* tests::revoke_anchor
TargetRoots == {Root0}
TargetDocs == {Fill(0), Fill(1)}
TargetAnchorKeys == TargetRoots \X TargetDocs
TargetSuspensionKeys == TargetRoots \X Leaves

\* a bool as it is recorded in a call
Bool(b) == IF b THEN "true" ELSE "false"

TargetInit ==
    /\ Anchors = [k \in TargetAnchorKeys |-> None]
    /\ SuspendedLeaves = [k \in TargetSuspensionKeys |-> None]
    /\ block_number = 1
    /\ last = NoCall

TargetCreateAnchor ==
    \E origin \in Origins, admins \in TargetRoots, root \in TargetDocs :
        create_anchor(origin, admins, root)

TargetRevokeAnchor ==
    \E origin \in Origins, admins \in TargetRoots, root \in TargetDocs,
       proof \in Proofs :
        revoke_anchor(origin, admins, root, proof)

TargetSuspendLeaf ==
    \E origin \in Origins, proof \in Proofs, admins \in TargetRoots,
       leaf \in Leaves, suspend_end \in Times :
        suspend_leaf(origin, proof, admins, leaf, suspend_end)

\* a read of leaf_suspended_by(auths, leaf, now); the call records now in
\* suspend_end and the returned bool in result
TargetLeafSuspendedBy ==
    \E auths \in TargetRoots, leaf \in Leaves, now \in Times :
        /\ last' = Call("leaf_suspended_by", Unsigned, auths, leaf, <<>>, now,
                        SuspendedLeaves[<<auths, leaf>>],
                        Bool(leaf_suspended_by(auths, leaf, now)))
        /\ UNCHANGED <<Anchors, SuspendedLeaves, block_number>>

TargetNext ==
    TargetCreateAnchor \/ TargetRevokeAnchor \/ TargetSuspendLeaf
        \/ TargetLeafSuspendedBy \/ NextBlock

SpecTargets == TargetInit /\ [][TargetNext]_vars

(* ------------------------ verify_proof on its own ---------------------- *)
\* the tree of two equal leaves, and a tree of depth two
RootTwin == hash(HashablePair(AdminLeaf(0), AdminLeaf(0)))
RootDeep == hash(HashablePair(Root01, AdminLeaf(0)))
VerifyRoots == {ZeroDigest, Root0, Root01, RootTwin, RootDeep}
VerifySiblings == {AdminLeaf(0), AdminLeaf(1)}
VerifyElements ==
    {Left(d) : d \in VerifySiblings} \cup {Right(d) : d \in VerifySiblings}
VerifyProofs == UNION {[1..n -> VerifyElements] : n \in 0..MaxProofLen}

\* verify_proof(root, proof, account_id_hash(account)); the call records the
\* returned bool in result
VerifyProof ==
    \E root \in VerifyRoots, proof \in VerifyProofs, account \in Accounts :
        /\ last' = Call("verify_proof", Signed(account), root, ZeroDigest, proof,
                        0, None,
                        Bool(verify_proof(root, proof, account_id_hash(account))))
        /\ UNCHANGED <<Anchors, SuspendedLeaves, block_number>>

VerifyNext == VerifyProof \/ RevokeAnchor

SpecVerify == Init /\ [][VerifyNext]_vars

(* ----------------- a proof longer than MAX_PROOF_SIZE ------------------ *)
\* account 0 under MAX_PROOF_SIZE + 1 levels, each with the sibling [0; 32]
\* on the right
LongProof == [i \in 1..(MAX_PROOF_SIZE + 1) |-> Right(ZeroDigest)]
LongRoot == fold(AdminLeaf(0), LongProof)
LongRoots == {LongRoot}
LongProofs == {<<>>, SubSeq(LongProof, 1, MAX_PROOF_SIZE), LongProof}
LongAnchorKeys == LongRoots \X DocRoots
LongSuspensionKeys == LongRoots \X Leaves

LongInit ==
    /\ Anchors = [k \in LongAnchorKeys |-> None]
    /\ SuspendedLeaves = [k \in LongSuspensionKeys |-> None]
    /\ block_number = 1
    /\ last = NoCall

LongCreateAnchor ==
    \E origin \in Origins, admins \in LongRoots, root \in DocRoots :
        create_anchor(origin, admins, root)

LongRevokeAnchor ==
    \E origin \in Origins, admins \in LongRoots, root \in DocRoots,
       proof \in LongProofs :
        revoke_anchor(origin, admins, root, proof)

LongSuspendLeaf ==
    \E origin \in Origins, proof \in LongProofs, admins \in LongRoots,
       leaf \in Leaves, suspend_end \in Times :
        suspend_leaf(origin, proof, admins, leaf, suspend_end)

LongNext ==
    LongCreateAnchor \/ LongRevokeAnchor \/ LongSuspendLeaf \/ NextBlock

SpecLong == LongInit /\ [][LongNext]_vars

(* ------------------------------ properties ----------------------------- *)
\* the key of a call, and whether the proof of the call verifies for its sender
KeyOf(c) == <<c.admins, c.target>>
SignedCall(c) == ensure_signed(c.origin)
ValidCall(c) ==
    /\ ensure_signed(c.origin)
    /\ verify_proof(c.admins, c.proof, account_id_hash(c.origin[2]))

\* C1: once the Anchors record of a key is Revoked, it is Revoked after every
\* step, whichever call is made.
RevocationPermanent ==
    [][\A k \in AnchorKeys : Anchors[k] = Revoked => Anchors'[k] = Revoked]_vars

\* a create_anchor has run on a key that was Revoked
RevocationPermanentWitness ==
    /\ last.op = "create_anchor"
    /\ SignedCall(last)
    /\ last.before = Revoked
    /\ Anchors[KeyOf(last)] = Revoked

\* C2: a SuspendedLeaves record is never removed, its stored end never
\* decreases, and a successful suspend_leaf on a key that had a record leaves a
\* strictly larger end.
SuspensionOnlyExtends ==
    /\ [](last.op = "suspend_leaf" /\ last.result = Ok /\ last.before # None
            => SuspendedLeaves[KeyOf(last)][2] > last.before[2])
    /\ [][\A k \in SuspensionKeys :
            SuspendedLeaves[k] # None
                => /\ SuspendedLeaves'[k] # None
                   /\ SuspendedLeaves'[k][2] >= SuspendedLeaves[k][2]]_vars

\* a suspend_leaf has extended an existing suspension
SuspensionOnlyExtendsWitness ==
    /\ last.op = "suspend_leaf"
    /\ last.result = Ok
    /\ last.before # None
    /\ SuspendedLeaves[KeyOf(last)] = Some(last.suspend_end)

\* C3: an Anchors record becomes Revoked only in a revoke_anchor step on its
\* key, and a SuspendedLeaves record changes only in a suspend_leaf step on
\* its key, and in both the proof verifies for the sender against the admin
\* root of the key; a revoke_anchor or suspend_leaf whose proof does not
\* verify changes no record.
ProofGatedMutation ==
    [][/\ \A k \in AnchorKeys :
            Anchors[k] # Revoked /\ Anchors'[k] = Revoked
                => last'.op = "revoke_anchor" /\ KeyOf(last') = k /\ ValidCall(last')
       /\ \A k \in SuspensionKeys :
            SuspendedLeaves'[k] # SuspendedLeaves[k]
                => last'.op = "suspend_leaf" /\ KeyOf(last') = k /\ ValidCall(last')
       /\ last'.op \in {"revoke_anchor", "suspend_leaf"} /\ ~ValidCall(last')
            => UNCHANGED <<Anchors, SuspendedLeaves>>]_vars

\* account 1 with the empty proof is refused under the root of { 0 }, after
\* account 0 has revoked an anchor
ProofGatedMutationWitness ==
    /\ last.op = "suspend_leaf"
    /\ last.origin = Signed(1)
    /\ last.admins = Root0
    /\ last.proof = <<>>
    /\ last.before = None
    /\ last.result = InvalidProof
    /\ \E k \in AnchorKeys : Anchors[k] = Revoked

\* C4: create_anchor by a signed caller succeeds exactly when the key has no
\* record; then the record is NotRevoked(current block number) and
\* lookup_anchor returns it; when a record exists the call fails with
\* AlreadyAnchored and the record is unchanged.
CreateAnchorContract ==
    last.op = "create_anchor" =>
        /\ last.result = Ok => last.before = None
        /\ SignedCall(last) /\ last.before = None
            => /\ last.result = Ok
               /\ Anchors[KeyOf(last)] = NotRevoked(block_number)
               /\ lookup_anchor(last.admins, last.target) = NotRevoked(block_number)
        /\ SignedCall(last) /\ last.before # None
            => /\ last.result = AlreadyAnchored
               /\ Anchors[KeyOf(last)] = last.before

\* an anchor has been created in a block after the first
CreateAnchorContractWitness ==
    /\ last.op = "create_anchor"
    /\ last.result = Ok
    /\ block_number > 1
    /\ lookup_anchor(last.admins, last.target) = NotRevoked(block_number)

\* C5: revoke_anchor with a verifying proof on a key without a record succeeds
\* and stores Revoked; from then on every create_anchor on the key fails and
\* the key never holds NotRevoked.
RevokeBeforeCreate ==
    /\ [](/\ last.op = "revoke_anchor" /\ ValidCall(last) /\ last.before = None
              => last.result = Ok /\ Anchors[KeyOf(last)] = Revoked
          /\ last.op = "create_anchor" /\ last.before = Revoked
              => last.result # Ok)
    /\ [][\A k \in AnchorKeys :
            Anchors[k] = Revoked
                => /\ Anchors'[k] = Revoked
                   /\ (last'.op = "create_anchor" /\ KeyOf(last') = k)
                        => last'.result # Ok]_vars

\* an anchor that was never created has been revoked
RevokeBeforeCreateWitness ==
    /\ last.op = "revoke_anchor"
    /\ last.before = None
    /\ last.result = Ok
    /\ Anchors[KeyOf(last)] = Revoked

\* C6 as stated: a revoke_anchor whose proof is rejected fails with
\* InvalidProof whatever the record of the key is.
RejectedRevokeIsInvalidProof ==
    last.op = "revoke_anchor" /\ SignedCall(last) /\ ~ValidCall(last)
        => last.result = InvalidProof

\* C6 amended: a revoke_anchor whose proof is rejected fails and leaves the
\* record as it was; the error is InvalidProof when the record is absent or
\* NotRevoked, and AlreadyRevoked when the record is Revoked.
RejectedRevokeFails ==
    last.op = "revoke_anchor" /\ SignedCall(last) /\ ~ValidCall(last)
        => /\ last.result = (IF last.before = Revoked THEN AlreadyRevoked
                             ELSE InvalidProof)
           /\ Anchors[KeyOf(last)] = last.before

\* a revoke_anchor with a rejected proof has run on a Revoked key
RejectedRevokeFailsWitness ==
    /\ last.op = "revoke_anchor"
    /\ SignedCall(last)
    /\ ~ValidCall(last)
    /\ last.before = Revoked
    /\ last.result = AlreadyRevoked

\* C7 as stated: a suspend_leaf whose proof is rejected fails with
\* InvalidProof whatever is stored and whatever end is requested.
RejectedSuspendIsInvalidProof ==
    last.op = "suspend_leaf" /\ SignedCall(last) /\ ~ValidCall(last)
        => last.result = InvalidProof

\* C7 amended: a suspend_leaf whose proof is rejected fails and leaves the
\* record as it was; the error is SuspensionNotExtended when a record exists
\* and the requested end is not greater than the stored one, and InvalidProof
\* otherwise.
RejectedSuspendFails ==
    last.op = "suspend_leaf" /\ SignedCall(last) /\ ~ValidCall(last)
        => /\ last.result =
                (IF last.before # None /\ last.suspend_end <= last.before[2]
                 THEN SuspensionNotExtended ELSE InvalidProof)
           /\ SuspendedLeaves[KeyOf(last)] = last.before

\* a suspend_leaf with a rejected proof has asked for an end that is not
\* greater than the stored one
RejectedSuspendFailsWitness ==
    /\ last.op = "suspend_leaf"
    /\ SignedCall(last)
    /\ ~ValidCall(last)
    /\ last.before # None
    /\ last.suspend_end <= last.before[2]
    /\ last.result = SuspensionNotExtended

\* C8: revoke_anchor with a verifying proof on a Revoked key fails with
\* AlreadyRevoked and the record stays Revoked; a successful revoke_anchor
\* followed by the same call gives AlreadyRevoked.
RevokeTwice ==
    /\ [](last.op = "revoke_anchor" /\ ValidCall(last) /\ last.before = Revoked
            => last.result = AlreadyRevoked /\ Anchors[KeyOf(last)] = Revoked)
    /\ [][(/\ last.op = "revoke_anchor" /\ last.result = Ok
           /\ last'.op = "revoke_anchor"
           /\ last'.origin = last.origin /\ KeyOf(last') = KeyOf(last)
           /\ last'.proof = last.proof)
            => last'.result = AlreadyRevoked]_vars

\* a verifying revoke_anchor has run on a Revoked key
RevokeTwiceWitness ==
    /\ last.op = "revoke_anchor"
    /\ ValidCall(last)
    /\ last.before = Revoked
    /\ last.result = AlreadyRevoked

\* C9: suspend_leaf with a verifying proof succeeds and stores the requested
\* end when the key has no record or the end is greater than the stored one;
\* otherwise it fails with SuspensionNotExtended and the stored end is
\* unchanged.
SuspendLeafContract ==
    last.op = "suspend_leaf" /\ ValidCall(last) =>
        IF last.before = None \/ last.suspend_end > last.before[2]
        THEN /\ last.result = Ok
             /\ SuspendedLeaves[KeyOf(last)] = Some(last.suspend_end)
        ELSE /\ last.result = SuspensionNotExtended
             /\ SuspendedLeaves[KeyOf(last)] = last.before

\* a verifying suspend_leaf has repeated the stored end
SuspendLeafContractWitness ==
    /\ last.op = "suspend_leaf"
    /\ ValidCall(last)
    /\ last.before = Some(last.suspend_end)
    /\ last.result = SuspensionNotExtended

\* C10: a call that returns an error leaves both tables as they were.
AllOrNothing ==
    [][last'.op # "none" /\ last'.result # Ok
            => UNCHANGED <<Anchors, SuspendedLeaves>>]_vars

\* an error has been returned in a state with records in both tables
AllOrNothingWitness ==
    /\ last.result \in {AlreadyAnchored, AlreadyRevoked, InvalidProof,
                        SuspensionNotExtended}
    /\ \E k \in AnchorKeys : Anchors[k] # None
    /\ \E k \in SuspensionKeys : SuspendedLeaves[k] # None
\* C11: under the all-zero admin root every revoke_anchor and suspend_leaf of
\* a signed caller fails with InvalidProof, whatever the proof; no anchor
\* under it is ever Revoked, a NotRevoked anchor under it never changes, and
\* no suspension under it ever exists.
SentinelIrrevocable ==
    /\ []((last.op \in {"revoke_anchor", "suspend_leaf"} /\ SignedCall(last)
            /\ last.admins = ZeroDigest)
                => last.result = InvalidProof)
    /\ [](\A k \in SentinelAnchorKeys : Anchors[k] # Revoked)
    /\ [](\A k \in SentinelSuspensionKeys : SuspendedLeaves[k] = None)
    /\ [][\A k \in SentinelAnchorKeys :
            Anchors[k] # None => Anchors'[k] = Anchors[k]]_vars

\* account 0 with the empty proof has tried to revoke an anchor created under
\* the all-zero admin root
SentinelIrrevocableWitness ==
    /\ last.op = "revoke_anchor"
    /\ last.origin = Signed(0)
    /\ last.admins = ZeroDigest
    /\ last.proof = <<>>
    /\ last.before # None
    /\ last.result = InvalidProof
    /\ Anchors[KeyOf(last)] = last.before
\* C12: a step changes at most the record at the key of its call, in the
\* table of its call; whatever the records of the other keys are, a
\* create_anchor by a signed caller on a key without a record succeeds.
KeyedByPair ==
    [][/\ \A k \in AnchorKeys :
            Anchors'[k] # Anchors[k]
                => /\ last'.op \in {"create_anchor", "revoke_anchor"}
                   /\ KeyOf(last') = k
       /\ \A k \in SuspensionKeys :
            SuspendedLeaves'[k] # SuspendedLeaves[k]
                => last'.op = "suspend_leaf" /\ KeyOf(last') = k
       /\ (last'.op = "create_anchor" /\ SignedCall(last')
            /\ Anchors[KeyOf(last')] = None)
                => last'.result = Ok /\ Anchors'[KeyOf(last')] # None]_vars

\* an anchor has been created for a document root that is revoked under
\* another admin root
KeyedByPairWitness ==
    /\ last.op = "create_anchor"
    /\ last.result = Ok
    /\ \E k \in AnchorKeys :
          /\ k[1] # last.admins
          /\ k[2] = last.target
          /\ Anchors[k] = Revoked
\* C13: leaf_suspended_by returns true exactly when a record exists for the
\* key and now is not after the stored end (an equal now counts as
\* suspended); without a record it returns false; it always returns a bool
\* and changes no state.
LeafSuspendedByContract ==
    /\ [](last.op = "leaf_suspended_by"
            => /\ last.result \in {"true", "false"}
               /\ last.before = None => last.result = "false"
               /\ last.result = "true"
                    <=> (/\ SuspendedLeaves[KeyOf(last)] # None
                         /\ last.suspend_end <= SuspendedLeaves[KeyOf(last)][2]))
    /\ [][last'.op = "leaf_suspended_by"
            => UNCHANGED <<Anchors, SuspendedLeaves, block_number>>]_vars

\* a read at the very end of a suspension has returned true
LeafSuspendedByContractWitness ==
    /\ last.op = "leaf_suspended_by"
    /\ SuspendedLeaves[KeyOf(last)] = Some(last.suspend_end)
    /\ last.result = "true"
\* C14: once the stored end of a key is the largest timestamp, no
\* suspend_leaf on the key succeeds, the stored end stays the largest
\* timestamp, and leaf_suspended_by is true for every now.
PermanentSuspension ==
    /\ []((last.op = "suspend_leaf" /\ last.before = Some(MaxTime))
            => /\ last.result # Ok
               /\ SuspendedLeaves[KeyOf(last)] = Some(MaxTime))
    /\ [](\A k \in SuspensionKeys :
            SuspendedLeaves[k] = Some(MaxTime)
                => \A now \in Times : leaf_suspended_by(k[1], k[2], now))
    /\ [][\A k \in SuspensionKeys :
            SuspendedLeaves[k] = Some(MaxTime)
                => SuspendedLeaves'[k] = Some(MaxTime)]_vars

\* an admin has asked again for the largest timestamp on a permanently
\* suspended leaf
PermanentSuspensionWitness ==
    /\ last.op = "suspend_leaf"
    /\ ValidCall(last)
    /\ last.before = Some(MaxTime)
    /\ last.suspend_end = MaxTime
    /\ last.result = SuspensionNotExtended
    /\ leaf_suspended_by(last.admins, last.target, MaxTime)
\* the accumulator after the first n elements of the proof, as the claim
\* states it
RECURSIVE Accumulator(_, _, _)
Accumulator(leaf, proof, n) ==
    IF n = 0 THEN hash(leaf)
    ELSE LET acc == Accumulator(leaf, proof, n - 1)
             s == proof[n][2]
         IN  IF proof[n][1] = "Left" THEN hash(s \o acc) ELSE hash(acc \o s)

\* C15: verify_proof is true exactly when the accumulator, started at
\* Hash(leaf digest) and folded over the proof in order with Left(s) giving
\* Hash(s, accumulator) and Right(s) giving Hash(accumulator, s), equals the
\* root; the empty proof verifies exactly when root = Hash(leaf digest); and
\* account 0 revokes with the empty proof under the root Hash(Hash(id(0))).
VerifyIsFold ==
    /\ last.op = "verify_proof"
        => LET leaf == account_id_hash(last.origin[2]) IN
           /\ last.result = "true"
                <=> Accumulator(leaf, last.proof, Len(last.proof)) = last.admins
           /\ last.proof = <<>>
                => (last.result = "true" <=> last.admins = hash(leaf))
    /\ (/\ last.op = "revoke_anchor" /\ last.origin = Signed(0)
         /\ last.admins = Root0 /\ last.proof = <<>> /\ last.before # Revoked)
            => last.result = Ok /\ Anchors[KeyOf(last)] = Revoked

\* a proof of two elements has verified against the tree of depth two
VerifyIsFoldWitness ==
    /\ last.op = "verify_proof"
    /\ last.admins = RootDeep
    /\ Len(last.proof) = 2
    /\ last.result = "true"

\* proofs that differ from a proof in one sibling digest, or in one tag
ReplaceSibling(proof, i, d) == [proof EXCEPT ![i] = <<proof[i][1], d>>]
FlipTag(proof, i) ==
    [proof EXCEPT ![i] = IF proof[i][1] = "Left" THEN Right(proof[i][2])
                         ELSE Left(proof[i][2])]

\* C16 as stated: when a proof of one or more elements verifies, no proof
\* that differs from it in one sibling digest verifies, and no proof that
\* differs from it in one tag verifies.
NegativeTest ==
    (last.op = "verify_proof" /\ last.result = "true")
        => LET leaf == account_id_hash(last.origin[2]) IN
           \A i \in 1..Len(last.proof) :
              /\ \A d \in (VerifySiblings \cup VerifyRoots) \ {last.proof[i][2]} :
                    ~verify_proof(last.admins, ReplaceSibling(last.proof, i, d), leaf)
              /\ ~verify_proof(last.admins, FlipTag(last.proof, i), leaf)

\* C16 amended: a changed sibling digest never verifies, and a flipped tag
\* does not verify unless the sibling digest of that element equals the
\* accumulator at its level.
NegativeTestButTwins ==
    (last.op = "verify_proof" /\ last.result = "true")
        => LET leaf == account_id_hash(last.origin[2]) IN
           \A i \in 1..Len(last.proof) :
              /\ \A d \in (VerifySiblings \cup VerifyRoots) \ {last.proof[i][2]} :
                    ~verify_proof(last.admins, ReplaceSibling(last.proof, i, d), leaf)
              /\ last.proof[i][2] # Accumulator(leaf, last.proof, i - 1)
                    => ~verify_proof(last.admins, FlipTag(last.proof, i), leaf)

\* a proof of one element whose sibling differs from the leaf node has
\* verified
NegativeTestButTwinsWitness ==
    /\ last.op = "verify_proof"
    /\ last.admins = Root01
    /\ last.origin = Signed(1)
    /\ last.proof = <<Left(AdminLeaf(0))>>
    /\ last.result = "true"
\* a step in which a successful call of the operation on the key is made
SucceedsOn(op, k) ==
    last'.op = op /\ last'.result = Ok /\ KeyOf(last') = k

\* C17 as stated: no Anchors record is deleted; NotRevoked(t) keeps its t
\* until a successful revoke_anchor on the key makes it Revoked; a record
\* comes into existence only through create_anchor and afterwards changes
\* only through revoke_anchor.
AnchorLifecycleAsStated ==
    [][\A k \in AnchorKeys :
        /\ Anchors[k] # None => Anchors'[k] # None
        /\ (Anchors[k][1] = "NotRevoked" /\ Anchors'[k] # Anchors[k])
            => Anchors'[k] = Revoked /\ SucceedsOn("revoke_anchor", k)
        /\ (Anchors[k] = None /\ Anchors'[k] # None)
            => SucceedsOn("create_anchor", k)
        /\ (Anchors[k] # None /\ Anchors'[k] # Anchors[k])
            => SucceedsOn("revoke_anchor", k)]_vars

\* C17 amended: as stated, but a record comes into existence through
\* create_anchor, as NotRevoked(current block number), or through a
\* successful revoke_anchor on a key without a record, as Revoked; a
\* successful create_anchor finds no record, so each key sees at most one.
AnchorLifecycle ==
    /\ []((last.op = "create_anchor" /\ last.result = Ok)
            => last.before = None)
    /\ [][\A k \in AnchorKeys :
        /\ Anchors[k] # None => Anchors'[k] # None
        /\ (Anchors[k][1] = "NotRevoked" /\ Anchors'[k] # Anchors[k])
            => Anchors'[k] = Revoked /\ SucceedsOn("revoke_anchor", k)
        /\ (Anchors[k] = None /\ Anchors'[k] # None)
            => \/ /\ SucceedsOn("create_anchor", k)
                  /\ Anchors'[k] = NotRevoked(block_number)
               \/ /\ SucceedsOn("revoke_anchor", k)
                  /\ Anchors'[k] = Revoked
        /\ (Anchors[k] # None /\ Anchors'[k] # Anchors[k])
            => SucceedsOn("revoke_anchor", k)]_vars

\* an anchor created in an earlier block has been revoked
AnchorLifecycleWitness ==
    /\ last.op = "revoke_anchor"
    /\ last.result = Ok
    /\ last.before = NotRevoked(1)
    /\ block_number > 1
    /\ Anchors[KeyOf(last)] = Revoked
\* C18: a suspend_leaf with a suspend_end before now, successful or not,
\* leaves leaf_suspended_by of its key as it was for every time from now on.
PastSuspensionNoEffect ==
    [][\A k \in SuspensionKeys :
        (last'.op = "suspend_leaf" /\ KeyOf(last') = k)
            => \A now \in Times :
                 last'.suspend_end < now
                    => \A t \in now..MaxTime :
                         leaf_suspended_by(k[1], k[2], t)'
                            = leaf_suspended_by(k[1], k[2], t)]_vars

\* a suspension that ends before the largest timestamp has been stored
PastSuspensionNoEffectWitness ==
    /\ last.op = "suspend_leaf"
    /\ last.result = Ok
    /\ last.suspend_end < MaxTime
    /\ SuspendedLeaves[KeyOf(last)] = Some(last.suspend_end)
    /\ ~leaf_suspended_by(last.admins, last.target, MaxTime)
\* the calls that take a proof
ProofCalls == {"revoke_anchor", "suspend_leaf"}

CreationNotInFuture ==
    /\ [](\A k \in AnchorKeys :
            Anchors[k][1] = "NotRevoked" => Anchors[k][2] <= block_number)
    /\ []((last.op = "create_anchor" /\ last.result = Ok)
            => /\ last.before = None
               /\ Anchors[KeyOf(last)] = NotRevoked(block_number))
    /\ [][/\ block_number' >= block_number
          /\ \A k \in AnchorKeys :
               Anchors'[k][1] = "NotRevoked"
                    => \/ Anchors'[k] = Anchors[k]
                       \/ /\ Anchors[k] = None
                          /\ SucceedsOn("create_anchor", k)
                          /\ Anchors'[k] = NotRevoked(block_number)
                          /\ block_number' = block_number]_vars

\* an anchor has been created in a later block than another one, which
\* still carries its earlier block number
CreationNotInFutureWitness ==
    /\ last.op = "create_anchor"
    /\ last.result = Ok
    /\ Anchors[KeyOf(last)] = NotRevoked(block_number)
    /\ \E k \in AnchorKeys :
          Anchors[k][1] = "NotRevoked" /\ Anchors[k][2] < block_number
====
